---------------------------- MODULE Spec2Model ----------------------------
(***************************************************************************)
(* Model of the egui + OpenGL cube application: the shader compiler        *)
(* (renderer/shader.rs), the Renderer and its viewport bridge              *)
(* (renderer/mod.rs, ui/gl_viewport.rs) and the window/context manager     *)
(* with its frame loop (main.rs, ui/mod.rs, app.rs).                       *)
(*                                                                         *)
(* The GPU is a record `gl` holding the pieces of OpenGL state the program *)
(* touches.  A handler of the event loop is one action; the calls it makes *)
(* are appended, in program order, to `trace`, the log of the handler that *)
(* ran last.  A Rust panic (unwrap/expect/assert) and process::exit end    *)
(* the process: `proc` leaves "running" and nothing runs afterwards.       *)
(***************************************************************************)
EXTENDS Integers, Sequences, FiniteSets, TLC

VARIABLES
    gl,            \* OpenGL state of the (single) context
    proc,          \* "running" | "panicked" | "exited"
    args,          \* the parsed command line: [width, height]
    app,           \* the App struct of main.rs (Option fields are <<>> or <<v>>)
    event_loop,    \* winit: [state, exiting, redraw_requested]
    disk,          \* the persisted configuration file: <<>> or <<config>>
    trace,         \* the calls made by the handler that ran last, in program order
    last_event,    \* history: the event handled last and the lifecycle state it met
    hist,          \* history: sizes and present counts the claims refer to
    shader_calls,  \* history: one record per create_program call made by a test driver
    bridge_call    \* history: the last direct call of Renderer::render_viewport

appVars == <<args, app, event_loop, disk, trace, last_event, hist>>
vars == <<gl, proc, args, app, event_loop, disk, trace, last_event, hist, shader_calls, bridge_call>>

(***************************************************************************)
(* Bounds of the model.                                                    *)
(***************************************************************************)
MaxCalls == 3      \* create_program calls made by the shader driver
MaxCoord == 3      \* largest rectangle coordinate / extent, in half points
MaxFrame == 2      \* largest frame_count the animation reaches
MaxSwaps == 2      \* buffer swaps (presented frames) of a surface
MaxResumed == 2    \* deliveries of the resumed callback in a run

(***************************************************************************)
(* OpenGL state.                                                           *)
(***************************************************************************)
VERTEX_SHADER == "VERTEX_SHADER"
FRAGMENT_SHADER == "FRAGMENT_SHADER"

\* State of a freshly created context: no objects, everything disabled.
GlFresh(w, h) ==
    [viewport |-> <<0, 0, w, h>>,
     depth_test |-> FALSE, depth_func |-> "LESS",
     cull_face |-> FALSE, cull_mode |-> "BACK", front_face |-> "CCW",
     shaders |-> {}, programs |-> {}, buffers |-> {}, vertex_arrays |-> {},
     next_name |-> 1]

\* glViewport: a negative width or height is GL_INVALID_VALUE and changes nothing.
gl_viewport(g, x, y, w, h) ==
    IF w < 0 \/ h < 0 THEN g ELSE [g EXCEPT !.viewport = <<x, y, w, h>>]

\* glCreateProgram; `ok` is the driver's answer (glow returns Err on name 0).
gl_create_program(g, ok) ==
    IF ok
    THEN [g |-> [g EXCEPT !.programs = @ \cup {[name |-> g.next_name, attached |-> {}]},
                          !.next_name = @ + 1],
          ok |-> TRUE, name |-> g.next_name]
    ELSE [g |-> g, ok |-> FALSE, name |-> 0]

\* glCreateShader
gl_create_shader(g, shader_type, ok) ==
    IF ok
    THEN [g |-> [g EXCEPT !.shaders = @ \cup {[name |-> g.next_name, kind |-> shader_type,
                                               flagged |-> FALSE]},
                          !.next_name = @ + 1],
          ok |-> TRUE, name |-> g.next_name]
    ELSE [g |-> g, ok |-> FALSE, name |-> 0]

\* glAttachShader
gl_attach_shader(g, program, shader) ==
    [g EXCEPT !.programs = {IF p.name = program
                            THEN [p EXCEPT !.attached = @ \cup {shader}] ELSE p : p \in @}]

IsAttached(g, shader) == \E p \in g.programs : shader \in p.attached

\* glDeleteShader: a shader attached to a program is only flagged for deletion.
gl_delete_shader(g, shader) ==
    IF IsAttached(g, shader)
    THEN [g EXCEPT !.shaders = {IF s.name = shader
                                THEN [s EXCEPT !.flagged = TRUE] ELSE s : s \in @}]
    ELSE [g EXCEPT !.shaders = {s \in @ : s.name # shader}]

\* Mutant of gl_delete_program: the call is left out.
gl_delete_program_skipped(g, program) == g

\* glDeleteProgram: the program goes, its shaders are detached, and a detached
\* shader that was flagged for deletion goes with it.
gl_delete_program(g, program) ==
    LET rest == {p \in g.programs : p.name # program}
        g1 == [g EXCEPT !.programs = rest]
    IN  [g1 EXCEPT !.shaders = {s \in @ : ~(s.flagged /\ ~IsAttached(g1, s.name))}]

\* The objects a glGet/glIs query reports as existing.
Allocated(g) == [shaders |-> {s.name : s \in g.shaders},
                 programs |-> {p.name : p \in g.programs}]

(***************************************************************************)
(* Shader compiler (renderer/shader.rs).                                   *)
(* A source is what the driver's compiler makes of it: whether it compiles *)
(* and the info log it leaves.  A result is Ok(value), Err(diag) or a      *)
(* panic; `at` names the statement the function left through.              *)
(***************************************************************************)
Logs == {"log_a", "log_b"}
Source == [compiles : BOOLEAN, log : Logs]
Driver == [program_created : BOOLEAN, vertex_created : BOOLEAN,
           fragment_created : BOOLEAN, linked : BOOLEAN, link_log : Logs]

Ok(g, v, where) == [kind |-> "Ok", g |-> g, value |-> v, diag |-> <<>>, at |-> where]
Err(g, d, where) == [kind |-> "Err", g |-> g, value |-> 0, diag |-> d, at |-> where]
Panic(g, d, where) == [kind |-> "Panic", g |-> g, value |-> 0, diag |-> d, at |-> where]

\* format!("Shader compilation failed: {}", log) and format!("Program linking failed: {}", log)
format(prefix, log) == <<prefix, log>>

compile_shader(g, shader_type, source, created) ==
    LET s == gl_create_shader(g, shader_type, created) IN
    IF ~s.ok THEN Panic(s.g, <<"Cannot create shader">>, shader_type)
    ELSE IF ~source.compiles
         THEN Err(gl_delete_shader(s.g, s.name),
                  format("Shader compilation failed: ", source.log), shader_type)
         ELSE Ok(s.g, s.name, shader_type)

create_program(g, vertex_source, fragment_source, drv) ==
    LET p == gl_create_program(g, drv.program_created) IN
    IF ~p.ok THEN Panic(p.g, <<"Cannot create program">>, "create_program")
    ELSE
    LET v == compile_shader(p.g, VERTEX_SHADER, vertex_source, drv.vertex_created) IN
    IF v.kind # "Ok" THEN v
    ELSE
    LET f == compile_shader(v.g, FRAGMENT_SHADER, fragment_source, drv.fragment_created) IN
    IF f.kind # "Ok" THEN f
    ELSE
    LET a == gl_attach_shader(gl_attach_shader(f.g, p.name, v.value), p.name, f.value) IN
    IF ~drv.linked
    THEN Err(gl_delete_program(a, p.name),
             format("Program linking failed: ", drv.link_log), "link")
    ELSE Ok(gl_delete_shader(gl_delete_shader(a, v.value), f.value), p.name, "linked")


(***************************************************************************)
(* Renderer and viewport bridge (renderer/mod.rs, renderer/cube.rs).       *)
(* Lengths of a UI rectangle are f32 points, modelled in half points, so   *)
(* that `as i32` (truncation toward zero) is not the identity.  A rotation *)
(* is an f32 in radians, modelled in hundredths of a radian.               *)
(***************************************************************************)
Call(op, arg) == [op |-> op, arg |-> arg]

\* f32 `as i32` of a length given in half points
as_i32(v) == IF v >= 0 THEN v \div 2 ELSE -((-v) \div 2)

rect_width(rect) == rect.max_x - rect.min_x
rect_height(rect) == rect.max_y - rect.min_y

\* rect.width() / rect.height() in f32: a quotient <<num, den>>; den = 0 gives
\* an infinity (num # 0) or a NaN (num = 0), never a trap.
f32_div(num, den) == <<num, den>>
IsZero(q) == q[1] = 0 /\ q[2] # 0

\* glm::perspective is nalgebra's Perspective3::new, which asserts that the
\* aspect ratio is not zero; an infinite or NaN aspect passes the assertion.
glm_perspective_panics(aspect) == IsZero(aspect)

\* vertices: 24 rows of 9 floats: position, normal, colour.  Positions are
\* modelled in halves (0.5 is 1), so that every entry is an integer.
vertices ==
    <<
       \* Front face (red)
       -1, -1, 1, 0, 0, 1, 1, 0, 0,
       1, -1, 1, 0, 0, 1, 1, 0, 0,
       1, 1, 1, 0, 0, 1, 1, 0, 0,
       -1, 1, 1, 0, 0, 1, 1, 0, 0,
       \* Back face (green)
       -1, -1, -1, 0, 0, -1, 0, 1, 0,
       1, -1, -1, 0, 0, -1, 0, 1, 0,
       1, 1, -1, 0, 0, -1, 0, 1, 0,
       -1, 1, -1, 0, 0, -1, 0, 1, 0,
       \* Top face (blue)
       -1, 1, 1, 0, 1, 0, 0, 0, 1,
       1, 1, 1, 0, 1, 0, 0, 0, 1,
       1, 1, -1, 0, 1, 0, 0, 0, 1,
       -1, 1, -1, 0, 1, 0, 0, 0, 1,
       \* Bottom face (yellow)
       -1, -1, 1, 0, -1, 0, 1, 1, 0,
       1, -1, 1, 0, -1, 0, 1, 1, 0,
       1, -1, -1, 0, -1, 0, 1, 1, 0,
       -1, -1, -1, 0, -1, 0, 1, 1, 0,
       \* Right face (magenta)
       1, -1, 1, 1, 0, 0, 1, 0, 1,
       1, -1, -1, 1, 0, 0, 1, 0, 1,
       1, 1, -1, 1, 0, 0, 1, 0, 1,
       1, 1, 1, 1, 0, 0, 1, 0, 1,
       \* Left face (cyan)
       -1, -1, 1, -1, 0, 0, 0, 1, 1,
       -1, -1, -1, -1, 0, 0, 0, 1, 1,
       -1, 1, -1, -1, 0, 0, 0, 1, 1,
       -1, 1, 1, -1, 0, 0, 0, 1, 1
    >>

\* Mutant of indices: the last triangle refers to a vertex of the right face.
indices_stray ==
    << 0, 1, 2, 2, 3, 0,   4, 6, 5, 4, 7, 6,   8, 9, 10, 10, 11, 8,
       12, 14, 13, 12, 15, 14,   16, 17, 18, 18, 19, 16,   20, 22, 21, 20, 23, 19 >>

\* Mutant of indices: the second triangle of the top face is turned over.
indices_flipped ==
    << 0, 1, 2, 2, 3, 0,   4, 6, 5, 4, 7, 6,   8, 9, 10, 10, 8, 11,
       12, 14, 13, 12, 15, 14,   16, 17, 18, 18, 19, 16,   20, 22, 21, 20, 23, 22 >>

\* indices: front, back, top, bottom, right, left
indices ==
    << 0, 1, 2, 2, 3, 0,   4, 6, 5, 4, 7, 6,   8, 9, 10, 10, 11, 8,
       12, 14, 13, 12, 15, 14,   16, 17, 18, 18, 19, 16,   20, 22, 21, 20, 23, 22 >>

\* vertex_attrib_pointer_f32(location, 3, FLOAT, false, 9 * 4, offset * 4): the
\* three floats of vertex `i` (from 0) at `offset` floats into its row.
attribute(i, offset) ==
    << vertices[9 * i + offset + 1], vertices[9 * i + offset + 2],
       vertices[9 * i + offset + 3] >>
vertex_position(i) == attribute(i, 0)
vertex_normal(i) == attribute(i, 3)

\* index_count: indices.len() as i32
INDEX_COUNT == Len(indices)

\* Cube::render: the calls it issues, in order.  It returns nothing and has no
\* early return.
cube_render(cube, projection, view, model) ==
    << Call("gl.use_program", <<cube.program>>),
       Call("gl.uniform_matrix_4_f32_slice", <<"u_projection", projection>>),
       Call("gl.uniform_matrix_4_f32_slice", <<"u_view", view>>),
       Call("gl.uniform_matrix_4_f32_slice", <<"u_model", model>>),
       Call("gl.bind_vertex_array", <<cube.vao>>),
       Call("gl.draw_elements", <<"TRIANGLES", cube.index_count>>),
       Call("gl.bind_vertex_array", <<0>>) >>

\* Mutant of update: the argument is taken as a delta.
update_accumulated(self, delta) == [self EXCEPT !.rotation = @ + delta]

\* Renderer::update
update(self, delta) == [self EXCEPT !.rotation = delta]

\* Mutant of resize: the new size is added to the viewport's size.
resize_accumulated(g, width, height) ==
    gl_viewport(g, 0, 0, g.viewport[3] + width, g.viewport[4] + height)

\* Renderer::resize
resize(g, width, height) == gl_viewport(g, 0, 0, width, height)

\* Mutant of saved_viewport: the query is left out and the array keeps its zeros.
saved_viewport_unread(g) == <<0, 0, 0, 0>>

\* let mut current_viewport = [0i32; 4]; gl.get_parameter_i32_slice(VIEWPORT, ..)
saved_viewport(g) == g.viewport

\* Renderer::render_viewport.  The result carries the GPU state it leaves, how
\* it was left ("returned" or "panicked") and the calls it made.
render_viewport(self, g, rect, rotation) ==
    LET current_viewport == saved_viewport(g)
        x == as_i32(rect.min_x)
        y == as_i32(rect.min_y)
        w == as_i32(rect_width(rect))
        h == as_i32(rect_height(rect))
        g1 == gl_viewport(g, x, y, w, h)
        g2 == [g1 EXCEPT !.depth_test = TRUE, !.depth_func = "LESS",
                         !.cull_face = TRUE, !.cull_mode = "BACK"]
        setup == << Call("gl.get_parameter_i32_slice", <<"VIEWPORT">>),
                    Call("gl.viewport", <<x, y, w, h>>),
                    Call("gl.enable", <<"DEPTH_TEST">>),
                    Call("gl.depth_func", <<"LESS">>),
                    Call("gl.enable", <<"CULL_FACE">>),
                    Call("gl.cull_face", <<"BACK">>),
                    Call("gl.clear", <<"DEPTH_BUFFER_BIT">>) >>
        aspect == f32_div(rect_width(rect), rect_height(rect))
        projection == <<"perspective", aspect, 45>>
        view == <<"look_at", <<2, 2, 2>>, <<0, 0, 0>>, <<0, 1, 0>>>>
        model == <<"rotate", <<"Y", rotation * 10>>, <<"X", rotation * 7>>>>
        matrices == << Call("f32.div", aspect),
                       Call("glm.perspective", <<aspect>>) >>
        rest == << Call("glm.look_at", <<>>), Call("glm.rotate", <<"Y", rotation * 10>>),
                   Call("glm.rotate", <<"X", rotation * 7>>) >>
    IN  IF glm_perspective_panics(aspect)
        THEN [g |-> g2, outcome |-> "panicked", calls |-> setup \o matrices]
        ELSE [g |-> gl_viewport(g2, current_viewport[1], current_viewport[2],
                                current_viewport[3], current_viewport[4]),
              outcome |-> "returned",
              calls |-> setup \o matrices \o rest
                        \o cube_render(self.cube, projection, view, model)
                        \o << Call("gl.viewport", current_viewport) >>]


(***************************************************************************)
(* Application state (main.rs, app.rs, config.rs).                         *)
(***************************************************************************)
None == <<>>
Some(v) == <<v>>
IsSome(o) == o # <<>>
unwrap(o) == o[1]

DEFAULT_WIDTH == 1280
DEFAULT_HEIGHT == 720

\* Config::default
ConfigDefault ==
    [window |-> [width |-> DEFAULT_WIDTH, height |-> DEFAULT_HEIGHT,
                 pos_x |-> None, pos_y |-> None, maximized |-> FALSE]]

\* Config::update_window_size
update_window_size(config, width, height) ==
    [config EXCEPT !.window.width = width, !.window.height = height]

\* Config::update_window_pos
update_window_pos(config, x, y) ==
    [config EXCEPT !.window.pos_x = Some(x), !.window.pos_y = Some(y)]

\* Config::save: best effort; a failed write is only logged.
save(config, d, written) == IF written THEN Some(config) ELSE d

\* AppState::new.  Only the animation fields are kept: the file dialog flag, the
\* status text, the mouse position and the current file feed the file picker
\* and the status bar and nothing else.
AppStateNew == [playing |-> FALSE, frame_count |-> 0]

\* AppState::toggle_play, also reached through toggle_playing
toggle_play(st) == [st EXCEPT !.playing = ~@]

\* Mutant of step: two frames at once.
step_twice(st) == [st EXCEPT !.frame_count = @ + 2]

\* AppState::step
step(st) == [st EXCEPT !.frame_count = @ + 1]

\* AppState::reset
reset(st) == [st EXCEPT !.frame_count = 0, !.playing = FALSE]

\* The App value built by main(): every Option is None.
AppNew(config) ==
    [window |-> None, gl_surface |-> None, gl_context |-> None, gl_display |-> None,
     egui_winit |-> None, painter |-> None, app_state |-> None, renderer |-> None,
     gl |-> None, config |-> config]

\* The let-else chain at the head of window_event: every borrowed field is Some.
AllPresent(a) ==
    /\ IsSome(a.window) /\ IsSome(a.egui_winit) /\ IsSome(a.painter)
    /\ IsSome(a.gl_surface) /\ IsSome(a.gl_context) /\ IsSome(a.app_state)
    /\ IsSome(a.renderer) /\ IsSome(a.gl)

\* The state of the specification's state machine the application is in.
Lifecycle ==
    IF event_loop.exiting \/ event_loop.state = "ended" THEN "Disposed"
    ELSE IF AllPresent(app) THEN "Ready" ELSE "Uninitialized"

(***************************************************************************)
(* Cube::new and Renderer::new (renderer/cube.rs, renderer/mod.rs).        *)
(***************************************************************************)
BufferFailures == {"none", "vao", "vbo", "ebo"}

\* Cube::new from `.expect("Failed to create shader program")` on: `r` is what
\* create_program returned (a diagnostic is fatal); then the vertex array and
\* the two buffers are created (each failure is fatal).
cube_buffers(r, failing) ==
    LET compiled == << Call("shader::create_program", <<r.kind, r.at>>) >>
        n == r.g.next_name
        made == CASE failing = "vao" -> 0 [] failing = "vbo" -> 1
                  [] failing = "ebo" -> 2 [] OTHER -> 3
        g1 == [r.g EXCEPT !.vertex_arrays = IF made >= 1 THEN @ \cup {n} ELSE @,
                          !.buffers = @ \cup {n + i : i \in 1..(made - 1)},
                          !.next_name = @ + made]
        creates == << Call("gl.create_vertex_array", <<>>), Call("gl.create_buffer", <<"vbo">>),
                      Call("gl.create_buffer", <<"ebo">>) >>
    IN
    IF r.kind # "Ok"
    THEN Panic(r.g, compiled, IF r.kind = "Err" THEN "Failed to create shader program"
                                                ELSE r.at)
    ELSE IF made < 3
    THEN Panic(g1, compiled \o SubSeq(creates, 1, made + 1), failing)
    ELSE [kind |-> "Ok", g |-> g1,
          value |-> [vao |-> n, vbo |-> n + 1, ebo |-> n + 2, program |-> r.value,
                     index_count |-> INDEX_COUNT],
          diag |-> compiled \o creates
                   \o << Call("gl.buffer_data", <<"ARRAY_BUFFER">>),
                         Call("gl.buffer_data", <<"ELEMENT_ARRAY_BUFFER">>) >>,
          at |-> "Cube::new"]

\* Cube::new
cube_new(g, vs, fs, drv, failing) == cube_buffers(create_program(g, vs, fs, drv), failing)

\* Mutant of renderer_state: a cube that could not be built is not fatal.
renderer_state_unchecked(c) ==
    [c EXCEPT !.kind = "Ok",
              !.value = [rotation |-> 0,
                         cube |-> [vao |-> 0, vbo |-> 0, ebo |-> 0, program |-> 0,
                                   index_count |-> INDEX_COUNT]]]

\* Renderer::new once Cube::new returned `c`: the GL state it enables.
renderer_state(c) ==
    IF c.kind # "Ok" THEN c
    ELSE [c EXCEPT !.g = [@ EXCEPT !.depth_test = TRUE, !.cull_face = TRUE,
                                   !.cull_mode = "BACK", !.front_face = "CCW"],
                   !.value = [rotation |-> 0, cube |-> c.value],
                   !.diag = @ \o << Call("gl.enable", <<"DEPTH_TEST">>),
                                    Call("gl.enable", <<"CULL_FACE">>),
                                    Call("gl.cull_face", <<"BACK">>),
                                    Call("gl.front_face", <<"CCW">>) >>,
                   !.at = "Renderer::new"]

\* Renderer::new
renderer_new(g, vs, fs, drv, failing) == renderer_state(cube_new(g, vs, fs, drv, failing))


(***************************************************************************)
(* App::resumed (main.rs).  `env` is what the platform answers: the index  *)
(* of the first fallible platform call that fails (0: none), whether vsync *)
(* could be disabled, whether the egui painter could be built, and what    *)
(* the GL driver makes of the cube's shaders and buffers.                  *)
(***************************************************************************)
\* Mutant of ResumedSteps: the context is never made current.
ResumedSteps_not_activated ==
    << "DisplayBuilder.build", "gl_display.create_context",
       "window.build_surface_attributes", "gl_display.create_window_surface" >>

\* The fallible platform calls of resumed, in program order.
ResumedSteps ==
    << "DisplayBuilder.build", "gl_display.create_context",
       "window.build_surface_attributes", "gl_display.create_window_surface",
       "not_current_context.make_current" >>

\* LogicalSize -> physical pixels
to_physical(logical, scale_factor) == <<logical[1] * scale_factor, logical[2] * scale_factor>>

\* Mutant of store: the painter is left out.
store_without_painter(a, size, renderer) ==
    [a EXCEPT !.window = Some([inner_size |-> size]),
              !.gl_surface = Some([size |-> size, swaps |-> 0]),
              !.gl_context = Some("current"),
              !.gl_display = Some("display"),
              !.egui_winit = Some("state"),
              !.app_state = Some(AppStateNew),
              !.renderer = Some(renderer),
              !.gl = Some("gl")]

\* The stores at the end of resumed: nothing fallible stands between them.
store(a, size, renderer) ==
    [a EXCEPT !.window = Some([inner_size |-> size]),
              !.gl_surface = Some([size |-> size, swaps |-> 0]),
              !.gl_context = Some("current"),
              !.gl_display = Some("display"),
              !.egui_winit = Some("state"),
              !.painter = Some("painter"),
              !.app_state = Some(AppStateNew),
              !.renderer = Some(renderer),
              !.gl = Some("gl")]

\* resumed from Renderer::new on: `g1` is the context the loader returned, `r`
\* what Renderer::new made of it.
resumed_with(a, g, cli, env, g1, r) ==
    LET window_width == IF cli.width # DEFAULT_WIDTH THEN cli.width ELSE a.config.window.width
        window_height == IF cli.height # DEFAULT_HEIGHT THEN cli.height
                         ELSE a.config.window.height
        size == to_physical(<<window_width, window_height>>, env.scale_factor)
        attrs == <<window_width, window_height, a.config.window.pos_x,
                   a.config.window.pos_y, a.config.window.maximized>>
        platform == [i \in 1..Len(ResumedSteps) |->
                        Call(ResumedSteps[i], IF i = 1 THEN attrs ELSE <<>>)]
        loaded == platform
                  \o << Call("glow::Context::from_loader_function_cstr", <<>>),
                        Call("gl_surface.set_swap_interval", <<"DontWait", env.vsync_ok>>),
                        Call("egui_winit::State::new", <<>>),
                        Call("egui_glow::Painter::new", <<env.painter_ok>>) >>
    IN
    IF env.fail > 0
    THEN [app |-> a, g |-> g, trace |-> SubSeq(platform, 1, env.fail), proc |-> "panicked"]
    ELSE IF ~env.painter_ok
    THEN [app |-> a, g |-> g1, trace |-> loaded, proc |-> "panicked"]
    ELSE IF r.kind # "Ok"
    THEN [app |-> a, g |-> r.g,
          trace |-> loaded \o << Call("AppState::new", <<>>) >> \o r.diag,
          proc |-> "panicked"]
    ELSE [app |-> store(a, size, r.value),
          g |-> r.g,
          trace |-> loaded \o << Call("AppState::new", <<>>) >> \o r.diag,
          proc |-> "running"]

\* The context glow loads for a window of the size resumed asks for.
loaded_context(a, cli, env) ==
    GlFresh((IF cli.width # DEFAULT_WIDTH THEN cli.width ELSE a.config.window.width)
                * env.scale_factor,
            (IF cli.height # DEFAULT_HEIGHT THEN cli.height ELSE a.config.window.height)
                * env.scale_factor)

\* App::resumed
resumed(a, g, cli, env) ==
    resumed_with(a, g, cli, env, loaded_context(a, cli, env),
                 renderer_new(loaded_context(a, cli, env), env.vs, env.fs, env.drv,
                              env.buffers))

\* The resources resumed creates, and the call that creates each.
Resources == {"window", "gl_context", "gl_surface", "gl", "painter", "renderer"}
CreatedBy ==
    [window |-> "DisplayBuilder.build", gl_context |-> "gl_display.create_context",
     gl_surface |-> "gl_display.create_window_surface",
     gl |-> "glow::Context::from_loader_function_cstr",
     painter |-> "egui_glow::Painter::new", renderer |-> "gl.front_face"]

\* A call of the trace has returned when another call follows it or the
\* process still runs: a fatal failure ends the trace with the call that
\* failed.  (gl.front_face is the last call of Renderer::new.)
Returned_from(tr, pr, op) ==
    \E i \in 1..Len(tr) : tr[i].op = op /\ (i < Len(tr) \/ pr = "running")

\* The first step of resumed that fails under `env` ("none": no step fails),
\* in the order the code takes them.
FailedStep(env) ==
    IF env.fail > 0 THEN ResumedSteps[env.fail]
    ELSE IF ~env.painter_ok THEN "egui_glow::Painter::new"
    ELSE IF ~env.drv.program_created THEN "gl.create_program"
    ELSE IF ~env.drv.vertex_created \/ ~env.vs.compiles THEN VERTEX_SHADER
    ELSE IF ~env.drv.fragment_created \/ ~env.fs.compiles THEN FRAGMENT_SHADER
    ELSE IF ~env.drv.linked THEN "gl.link_program"
    ELSE IF env.buffers # "none" THEN env.buffers
    ELSE "none"

GoodSource == [compiles |-> TRUE, log |-> "log_a"]
GoodDriver == [program_created |-> TRUE, vertex_created |-> TRUE,
               fragment_created |-> TRUE, linked |-> TRUE, link_log |-> "log_a"]
ScaleFactors == {1}

\* At most one GPU call of Renderer::new fails, and a log that is never read
\* is left at its default: the first failure is fatal, so nothing is asked
\* after it.
OneFault(vs, fs, drv, buffers) ==
    /\ Cardinality({i \in 1..7 :
            <<~drv.program_created, ~drv.vertex_created, ~vs.compiles,
              ~drv.fragment_created, ~fs.compiles, ~drv.linked, buffers # "none">>[i]}) <= 1
    /\ vs.compiles => vs.log = "log_a"
    /\ fs.compiles => fs.log = "log_a"
    /\ drv.linked => drv.link_log = "log_a"

\* The answers the platform can give to one run of resumed.  What comes after
\* the first failure is never asked, so it is left at its default.
ResumedEnvs ==
    LET base == [fail |-> 0, scale_factor |-> 1, vsync_ok |-> TRUE, painter_ok |-> TRUE,
                 vs |-> GoodSource, fs |-> GoodSource, drv |-> GoodDriver,
                 buffers |-> "none"]
    IN  {[base EXCEPT !.fail = i, !.scale_factor = k] :
            i \in 1..Len(ResumedSteps), k \in ScaleFactors}
        \cup {[base EXCEPT !.painter_ok = FALSE, !.vsync_ok = v, !.scale_factor = k] :
                v \in BOOLEAN, k \in ScaleFactors}
        \cup {[base EXCEPT !.vsync_ok = v[1], !.vs = v[2], !.fs = v[3], !.drv = v[4],
                           !.buffers = v[5], !.scale_factor = v[6]] :
                v \in {w \in BOOLEAN \X Source \X Source \X Driver \X BufferFailures
                                \X ScaleFactors : OneFault(w[2], w[3], w[4], w[5])}}


(***************************************************************************)
(* UI layout (ui/mod.rs, ui/gl_viewport.rs).  `click` is the widget the    *)
(* frame's input clicks (at most one), `rect` the rectangle the central    *)
(* panel has left for the viewport.                                        *)
(***************************************************************************)
Clicks == {"none", "menu_exit", "play", "step", "reset"}

\* show_menu: File > Exit calls std::process::exit(0) from inside the layout
\* closure; the other menu items touch the file dialog and the status text.
show_menu(st, click) == [exited |-> click = "menu_exit", st |-> st]

\* show_toolbar
show_toolbar(st, click) ==
    CASE click = "play" -> toggle_play(st)
      [] click = "step" -> step(st)
      [] click = "reset" -> reset(st)
      [] OTHER -> st

\* show_viewport: registers the paint callback; no GPU call is made here.
\* The callback owns a clone of the renderer, the rectangle and the rotation.
show_viewport(renderer, st, rect) ==
    [rect |-> rect, rotation |-> st.frame_count, renderer_clone |-> renderer]

\* show_ui.  Returns the new app state and renderer, the registered callback
\* and whether the process exited inside the closure.
show_ui(st, renderer, click, rect) ==
    LET m == show_menu(st, click)
        t == show_toolbar(m.st, click)
        cb == show_viewport(renderer, t, rect)
        played == step(t)
    IN
    IF m.exited
    THEN [exited |-> TRUE, st |-> m.st, renderer |-> renderer, callbacks |-> <<>>,
          calls |-> << Call("std::process::exit", <<0>>) >>]
    ELSE IF t.playing
    THEN [exited |-> FALSE, st |-> played, renderer |-> update(renderer, played.frame_count),
          callbacks |-> <<cb>>,
          calls |-> << Call("renderer.clone", <<>>),
                       Call("ui.painter.add", <<cb.rect, cb.rotation>>),
                       Call("renderer.update", <<played.frame_count>>),
                       Call("ctx.request_repaint", <<>>) >>]
    ELSE [exited |-> FALSE, st |-> t, renderer |-> renderer, callbacks |-> <<cb>>,
          calls |-> << Call("renderer.clone", <<>>),
                       Call("ui.painter.add", <<cb.rect, cb.rotation>>) >>]

(***************************************************************************)
(* The 2D painter (egui_glow), as far as it touches the state the 3D pass  *)
(* shares with it: before painting and after every callback it puts the    *)
(* GPU in its own 2D state, and it runs a callback only when the           *)
(* callback's rectangle has a positive width and height, with the viewport *)
(* set to that rectangle in pixels (origin bottom-left, rounded).          *)
(***************************************************************************)
round_px(v) == (v + 1) \div 2

prepare_painting(g, size) ==
    [gl_viewport(g, 0, 0, size[1], size[2]) EXCEPT !.depth_test = FALSE, !.cull_face = FALSE]

\* Mutant of is_positive: a callback runs whatever its rectangle.
is_positive_always(rect) == rect.min_x <= rect.max_x

is_positive(rect) == rect.min_x < rect.max_x /\ rect.min_y < rect.max_y

\* painter.paint_primitives(size, ppp, primitives) with the callbacks among
\* the primitives: [g, outcome, calls].
RECURSIVE paint_callbacks(_, _, _)
paint_callbacks(g, size, callbacks) ==
    IF callbacks = <<>> THEN [g |-> g, outcome |-> "returned", calls |-> <<>>]
    ELSE
    LET cb == Head(callbacks) IN
    IF ~is_positive(cb.rect) THEN paint_callbacks(g, size, Tail(callbacks))
    ELSE
    LET g1 == gl_viewport(g, round_px(cb.rect.min_x), size[2] - round_px(cb.rect.max_y),
                          round_px(rect_width(cb.rect)), round_px(rect_height(cb.rect)))
        r == render_viewport(cb.renderer_clone, g1, cb.rect, cb.rotation)
        entered == << Call("Renderer::render_viewport", <<cb.rect, cb.rotation>>) >>
    IN
    IF r.outcome = "panicked"
    THEN [g |-> r.g, outcome |-> "panicked", calls |-> entered \o r.calls]
    ELSE LET more == paint_callbacks(prepare_painting(r.g, size), size, Tail(callbacks))
         IN  [more EXCEPT !.calls = entered \o r.calls \o @]

paint_primitives(g, size, callbacks) ==
    LET r == paint_callbacks(prepare_painting(g, size), size, callbacks)
    IN  [r EXCEPT !.calls = << Call("painter.paint_primitives", size) >> \o @]


(***************************************************************************)
(* App::window_event and App::about_to_wait (main.rs).  A handler result   *)
(* is [app, g, ev, disk, trace, proc].                                     *)
(***************************************************************************)
Res(a, g, ev, d, tr, pr) ==
    [app |-> a, g |-> g, ev |-> ev, disk |-> d, trace |-> tr, proc |-> pr]

on_window_event(kind) == << Call("egui_winit.on_window_event", <<kind>>) >>

\* WindowEvent::CloseRequested, and the Escape key
exit(ev) == [ev EXCEPT !.exiting = TRUE]

close_requested(a, g, ev, d) ==
    Res(a, g, exit(ev), d,
        on_window_event("CloseRequested") \o << Call("event_loop.exit", <<>>) >>, "running")

Keys == {"Space", "ArrowUp", "ArrowLeft", "KeyR", "ArrowRight", "Escape", "KeyA"}
ElementStates == {"Pressed", "Released"}

\* Mutant of request_redraw: the request is lost.
request_redraw_lost(ev) == ev

request_redraw(ev) == [ev EXCEPT !.redraw_requested = TRUE]

\* WindowEvent::KeyboardInput
keyboard_input(a, g, ev, d, state, key) ==
    LET st == unwrap(a.app_state)
        fed == on_window_event("KeyboardInput")
        redraw == << Call("window.request_redraw", <<>>) >>
    IN
    IF state # "Pressed" THEN Res(a, g, ev, d, fed, "running")
    ELSE CASE key \in {"Space", "ArrowUp"} ->
                Res([a EXCEPT !.app_state = Some(toggle_play(st))], g, request_redraw(ev), d,
                    fed \o redraw, "running")
           [] key \in {"ArrowLeft", "KeyR"} ->
                Res([a EXCEPT !.app_state = Some(reset(st))], g, request_redraw(ev), d,
                    fed \o redraw, "running")
           [] key = "ArrowRight" ->
                Res([a EXCEPT !.app_state = Some(step(st))], g, request_redraw(ev), d,
                    fed \o redraw, "running")
           [] key = "Escape" ->
                Res(a, g, exit(ev), d, fed \o << Call("event_loop.exit", <<>>) >>, "running")
           [] OTHER -> Res(a, g, ev, d, fed, "running")

\* Mutant of surface_resize: the surface keeps the size it had.
surface_resize_dropped(surface, size) == surface

\* gl_surface.resize(gl_context, width, height)
surface_resize(surface, size) == [surface EXCEPT !.size = size]

\* gl_surface.swap_buffers(gl_context), when it succeeds
swap_buffers(surface) == [surface EXCEPT !.swaps = @ + 1]

\* WindowEvent::Resized.  NonZeroU32::new(0).unwrap() panics before the
\* surface is touched.
resized(a, g, ev, d, size, written) ==
    LET fed == on_window_event("Resized")
        surface == unwrap(a.gl_surface)
        config == update_window_size(a.config, size[1], size[2])
    IN
    IF size[1] = 0 \/ size[2] = 0
    THEN Res(a, g, ev, d, fed \o << Call("NonZeroU32::new", <<0>>) >>, "panicked")
    ELSE Res([a EXCEPT !.gl_surface = Some(surface_resize(surface, size)),
                       !.config = config],
             resize(g, size[1], size[2]), ev, save(config, d, written),
             fed \o << Call("gl_surface.resize", size), Call("gl.viewport", <<0, 0>> \o size),
                       Call("config.save", <<written>>) >>,
             "running")

\* WindowEvent::Moved
moved(a, g, ev, d, position, written) ==
    LET config == update_window_pos(a.config, position[1], position[2]) IN
    Res([a EXCEPT !.config = config], g, ev, save(config, d, written),
        on_window_event("Moved") \o << Call("config.save", <<written>>) >>, "running")

\* for (id, delta) in textures_delta.set { set_texture }, then for id in
\* textures_delta.free { free_texture }
apply_textures(delta) ==
    [i \in 1..delta[1] |-> Call("painter.set_texture", <<i>>)]
    \o [i \in 1..delta[2] |-> Call("painter.free_texture", <<i>>)]

\* WindowEvent::RedrawRequested.  `input` is what the frame meets: the click,
\* the viewport rectangle, the texture delta and the outcome of the swap.
redraw_requested(a, g, ev, d, input) ==
    LET size == unwrap(a.window).inner_size
        surface == unwrap(a.gl_surface)
        ui == show_ui(unwrap(a.app_state), unwrap(a.renderer), input.click, input.rect)
        a1 == [a EXCEPT !.app_state = Some(ui.st), !.renderer = Some(ui.renderer)]
        layout == on_window_event("RedrawRequested")
                  \o << Call("egui_winit.take_egui_input", <<>>),
                        Call("egui_ctx.run", <<>>) >> \o ui.calls
        clear == << Call("egui_winit.handle_platform_output", <<>>),
                    Call("egui_ctx.tessellate", <<>>),
                    Call("gl.clear_color", <<>>),
                    Call("gl.clear", <<"COLOR_BUFFER_BIT", "DEPTH_BUFFER_BIT">>) >>
        p == paint_primitives(g, size, ui.callbacks)
        painted == layout \o clear \o p.calls
        swap == << Call("gl_surface.swap_buffers", <<input.swap_ok>>) >>
    IN
    IF ui.exited THEN Res(a1, g, ev, d, layout, "exited")
    ELSE IF p.outcome = "panicked" THEN Res(a1, p.g, ev, d, painted, "panicked")
    ELSE IF ~input.swap_ok
    THEN Res(a1, p.g, ev, d, painted \o apply_textures(input.textures) \o swap, "panicked")
    ELSE Res([a1 EXCEPT !.gl_surface = Some(swap_buffers(surface))],
             p.g, request_redraw(ev), d,
             painted \o apply_textures(input.textures) \o swap
             \o << Call("window.request_redraw", <<>>) >>,
             "running")

\* App::about_to_wait
about_to_wait(a, ev) == IF IsSome(a.window) THEN request_redraw(ev) ELSE ev


(***************************************************************************)
(* The application under the event loop.                                   *)
(***************************************************************************)
\* Args::parse: a dimension the command line does not give takes its
\* default_value_t.
Args_parse(cli) ==
    [width |-> IF IsSome(cli.width) THEN unwrap(cli.width) ELSE DEFAULT_WIDTH,
     height |-> IF IsSome(cli.height) THEN unwrap(cli.height) ELSE DEFAULT_HEIGHT]

\* A command line without --width and --height.
NoDimensions == [width |-> None, height |-> None]

DefaultArgs == Args_parse(NoDimensions)

HistInit ==
    [init_size |-> None, last_resize |-> None, swaps_before |-> 0,
     resumes |-> 0, init_failure |-> "none", redraw_open |-> FALSE,
     created |-> [r \in Resources |-> 0], repeated |-> FALSE,
     requested |-> NoDimensions]

AppInit ==
    /\ args = DefaultArgs
    /\ app = AppNew(ConfigDefault)
    /\ event_loop = [state |-> "running", resumed |-> FALSE, exiting |-> FALSE,
                     redraw_requested |-> FALSE]
    /\ disk = Some(ConfigDefault)
    /\ trace = <<>>
    /\ last_event = [kind |-> "none", phase |-> "Uninitialized"]
    /\ hist = HistInit

Init ==
    /\ gl = GlFresh(0, 0)
    /\ proc = "running"
    /\ AppInit
    /\ shader_calls = <<>>
    /\ bridge_call = None

\* Mutant of Running: events are still dispatched after the process ended.
Running_after_exit == event_loop.state = "running"

Running == proc = "running" /\ event_loop.state = "running"

\* The handler returned through the let-else chain: nothing was touched.
Returned == Res(app, gl, event_loop, disk, <<>>, "running")

FrameBound(r) ==
    IsSome(r.app.app_state) => unwrap(r.app.app_state).frame_count <= MaxFrame

Apply(kind, r, h) ==
    /\ app' = r.app
    /\ gl' = r.g
    /\ event_loop' = r.ev
    /\ disk' = r.disk
    /\ trace' = r.trace
    /\ proc' = r.proc
    /\ last_event' = [kind |-> kind, phase |-> Lifecycle]
    /\ hist' = h
    /\ UNCHANGED <<args, shader_calls, bridge_call>>

\* What one run of resumed adds to the history: `r` is its result.
ResumedHist(h, r, env) ==
    [h EXCEPT !.init_size = IF r.proc = "running"
                            THEN Some(unwrap(r.app.gl_surface).size) ELSE @,
              !.last_resize = IF r.proc = "running" THEN None ELSE @,
              !.resumes = @ + 1,
              !.init_failure = FailedStep(env),
              !.created = [x \in Resources |->
                              @[x] + IF Returned_from(r.trace, r.proc, CreatedBy[x]) THEN 1 ELSE 0]]

ApplyResumed(r, env) ==
    Apply("Resumed",
          Res(r.app, r.g, [event_loop EXCEPT !.resumed = TRUE], disk, r.trace, r.proc),
          ResumedHist(hist, r, env))

\* The resumed callback; the platform may deliver it again while the
\* application runs (the handler has no guard of its own).
Resumed ==
    /\ Running /\ hist.resumes < MaxResumed
    /\ \E env \in ResumedEnvs : ApplyResumed(resumed(app, gl, args, env), env)

CloseRequested ==
    /\ Running
    /\ Apply("CloseRequested",
             IF AllPresent(app) THEN close_requested(app, gl, event_loop, disk) ELSE Returned,
             hist)

KeyboardInput ==
    /\ Running
    /\ \E state \in ElementStates, key \in Keys :
        LET r == IF AllPresent(app)
                 THEN keyboard_input(app, gl, event_loop, disk, state, key) ELSE Returned
        IN  FrameBound(r) /\ Apply("KeyboardInput", r, hist)

\* Outcomes of writing the configuration file (the directory is writable).
Writes == {TRUE}

ResizeSizes == {<<640, 480>>, <<800, 600>>, <<0, 480>>, <<640, 0>>}

Resized ==
    /\ Running
    /\ \E size \in ResizeSizes, written \in Writes :
        IF AllPresent(app)
        THEN Apply("Resized",
                   resized([app EXCEPT !.window = Some([unwrap(@) EXCEPT !.inner_size = size])],
                           gl, event_loop, disk, size, written),
                   [hist EXCEPT !.last_resize = Some(size),
                                !.repeated = (last_event.kind = "Resized"
                                              /\ hist.last_resize = Some(size))])
        ELSE Apply("Resized", Returned, hist)

Positions == {<<10, 20>>}

Moved ==
    /\ Running
    /\ \E position \in Positions, written \in Writes :
        Apply("Moved",
              IF AllPresent(app) THEN moved(app, gl, event_loop, disk, position, written)
              ELSE Returned,
              hist)

Rects == {r \in [min_x : 0..MaxCoord, min_y : 0..MaxCoord,
                 max_x : 0..MaxCoord, max_y : 0..MaxCoord] :
            r.min_x <= r.max_x /\ r.min_y <= r.max_y}

\* The rectangles the central panel leaves below the menu and the toolbar.
LayoutRects == {r \in Rects : r.min_x = 0 /\ r.min_y = 1
                              /\ r.max_x = MaxCoord /\ r.max_y \in {1, MaxCoord}}

\* <<textures to upload, textures to free>> of a frame
TextureDeltas == {<<1, 1>>}

FrameInputs == [click : Clicks, rect : LayoutRects, textures : TextureDeltas,
                swap_ok : BOOLEAN]

\* The iteration `r` reached its buffer swap and the swap succeeded.
Completed(r) ==
    /\ r.proc = "running"
    /\ \E i \in 1..Len(r.trace) : r.trace[i] = Call("gl_surface.swap_buffers", <<TRUE>>)

ApplyRedraw(r) ==
    /\ FrameBound(r)
    /\ Apply("RedrawRequested", r,
             [hist EXCEPT !.swaps_before = unwrap(app.gl_surface).swaps,
                          !.redraw_open = ~Completed(r)])

RedrawRequested ==
    /\ Running
    /\ IF AllPresent(app)
       THEN /\ unwrap(app.gl_surface).swaps < MaxSwaps
            /\ \E input \in FrameInputs :
                \E r \in {redraw_requested(app, gl,
                                           [event_loop EXCEPT !.redraw_requested = FALSE],
                                           disk, input)} :
                    ApplyRedraw(r)
       ELSE Apply("RedrawRequested", Returned, hist)

\* Any other window event: the `_ => {}` arm.
OtherEvent ==
    /\ Running
    /\ Apply("Other",
             IF AllPresent(app)
             THEN Res(app, gl, event_loop, disk, on_window_event("Other"), "running")
             ELSE Returned,
             hist)

AboutToWait ==
    /\ Running
    /\ Apply("AboutToWait",
             Res(app, gl, about_to_wait(app, event_loop), disk,
                 IF IsSome(app.window) THEN << Call("window.request_redraw", <<>>) >> ELSE <<>>,
                 "running"),
             hist)

\* run_app returns once exit() was called and the events of the current
\* iteration have been dispatched.
LoopExit ==
    /\ Running /\ event_loop.exiting
    /\ event_loop' = [event_loop EXCEPT !.state = "ended"]
    /\ UNCHANGED <<gl, proc, args, app, disk, trace, last_event, hist, shader_calls,
                   bridge_call>>

Next ==
    \/ Resumed
    \/ CloseRequested
    \/ KeyboardInput
    \/ Resized
    \/ Moved
    \/ RedrawRequested
    \/ OtherEvent
    \/ AboutToWait
    \/ LoopExit

Spec == Init /\ [][Next]_vars

\* The application on a platform that delivers resumed once (a desktop), with
\* the event loop's guarantee that a requested redraw is delivered: the
\* control flow is Poll, so the loop never blocks while a request is pending.
ResumedOnce == hist.resumes = 0 /\ Resumed

RedrawDelivered ==
    /\ event_loop.redraw_requested
    /\ last_event' = [kind |-> "RedrawRequested", phase |-> Lifecycle]
    /\ RedrawRequested

NextLive ==
    \/ ResumedOnce
    \/ CloseRequested
    \/ KeyboardInput
    \/ Resized
    \/ Moved
    \/ RedrawRequested
    \/ OtherEvent
    \/ AboutToWait
    \/ LoopExit

SpecLive == Init /\ [][NextLive]_vars /\ WF_vars(RedrawDelivered)


(***************************************************************************)
(* The shader compiler on its own: create_program called up to MaxCalls    *)
(* times on one context, with every pair of sources and every answer of    *)
(* the driver.                                                             *)
(***************************************************************************)
InitShader ==
    /\ gl = GlFresh(0, 0)
    /\ proc = "running"
    /\ AppInit
    /\ shader_calls = <<>>
    /\ bridge_call = None

CallCreateProgram ==
    /\ proc = "running"
    /\ Len(shader_calls) < MaxCalls
    /\ \E vs \in Source, fs \in Source, drv \in Driver :
        LET r == create_program(gl, vs, fs, drv) IN
        /\ gl' = r.g
        /\ proc' = IF r.kind = "Panic" THEN "panicked" ELSE "running"
        /\ shader_calls' = Append(shader_calls,
                                  [before |-> gl, after |-> r.g, kind |-> r.kind,
                                   value |-> r.value, diag |-> r.diag, at |-> r.at,
                                   link |-> IF r.at \notin {"link", "linked"} THEN None
                                            ELSE Some([status |-> drv.linked,
                                                       log |-> IF drv.linked THEN ""
                                                               ELSE drv.link_log])])
    /\ UNCHANGED <<appVars, bridge_call>>

NextShader == CallCreateProgram

SpecShader == InitShader /\ [][NextShader]_vars

(***************************************************************************)
(* The viewport bridge on its own: Renderer::render_viewport called with   *)
(* any rectangle and rotation, from any GPU state the 2D painter may have  *)
(* left.                                                                   *)
(***************************************************************************)
BridgeRenderer ==
    renderer_new(GlFresh(MaxCoord, MaxCoord), GoodSource, GoodSource, GoodDriver, "none")

Viewports == {<<0, y, MaxCoord, MaxCoord>> : y \in {0, 1}}

PainterStates ==
    [viewport : Viewports, depth_test : BOOLEAN, cull_face : BOOLEAN,
     depth_func : {"LESS", "ALWAYS"}, cull_mode : {"BACK", "FRONT"}]

BridgeRects == {r \in Rects : r.min_x = 0 /\ r.min_y <= 1}

Rotations == {0, MaxFrame}

InitBridge ==
    /\ gl = BridgeRenderer.g
    /\ proc = "running"
    /\ AppInit
    /\ shader_calls = <<>>
    /\ bridge_call = None

\* The 2D painter (or any other user of the context) leaves a GPU state.
SetGpuState ==
    /\ proc = "running"
    /\ \E p \in PainterStates :
        gl' = [gl EXCEPT !.viewport = p.viewport, !.depth_test = p.depth_test,
                         !.cull_face = p.cull_face, !.depth_func = p.depth_func,
                         !.cull_mode = p.cull_mode]
    /\ bridge_call' = None
    /\ UNCHANGED <<proc, appVars, shader_calls>>

CallRenderViewport ==
    /\ proc = "running"
    /\ \E rect \in BridgeRects, rotation \in Rotations :
        LET r == render_viewport(BridgeRenderer.value, gl, rect, rotation) IN
        /\ gl' = r.g
        /\ proc' = IF r.outcome = "panicked" THEN "panicked" ELSE "running"
        /\ bridge_call' = Some([entry |-> gl, exit |-> r.g, rect |-> rect,
                                rotation |-> rotation, outcome |-> r.outcome,
                                calls |-> r.calls])
    /\ UNCHANGED <<appVars, shader_calls>>

NextBridge == SetGpuState \/ CallRenderViewport

SpecBridge == InitBridge /\ [][NextBridge]_vars


(***************************************************************************)
(* Renderer::update on its own: any sequence of calls with any arguments   *)
(* on a constructed Renderer, between any GPU states.  `trace` keeps the   *)
(* calls made so far.                                                      *)
(***************************************************************************)
Deltas == 0..MaxFrame

InitUpdate ==
    /\ gl = BridgeRenderer.g
    /\ proc = "running"
    /\ args = DefaultArgs
    /\ app = [AppNew(ConfigDefault) EXCEPT !.renderer = Some(BridgeRenderer.value)]
    /\ event_loop = [state |-> "running", resumed |-> FALSE, exiting |-> FALSE,
                     redraw_requested |-> FALSE]
    /\ disk = None
    /\ trace = <<>>
    /\ last_event = [kind |-> "none", phase |-> "Uninitialized"]
    /\ hist = HistInit
    /\ shader_calls = <<>>
    /\ bridge_call = None

CallUpdate ==
    /\ proc = "running"
    /\ Len(trace) < MaxCalls
    /\ \E delta \in Deltas :
        /\ app' = [app EXCEPT !.renderer = Some(update(unwrap(@), delta))]
        /\ trace' = Append(trace, Call("renderer.update", <<delta>>))
    /\ UNCHANGED <<gl, proc, args, event_loop, disk, last_event, hist, shader_calls,
                   bridge_call>>

NextUpdate == SetGpuState \/ CallUpdate

SpecUpdate == InitUpdate /\ [][NextUpdate]_vars


(***************************************************************************)
(* Initialization on its own: main() with any command line and any stored  *)
(* configuration, then resumed.                                            *)
(***************************************************************************)
CommandLines ==
    [width : {None, Some(DEFAULT_WIDTH), Some(800)},
     height : {None, Some(DEFAULT_HEIGHT), Some(600)}]

StoredConfigs ==
    {ConfigDefault, update_window_size(ConfigDefault, 1920, 1080),
     update_window_pos(update_window_size(ConfigDefault, 1920, DEFAULT_HEIGHT), 10, 20)}

InitStart ==
    /\ gl = GlFresh(0, 0)
    /\ proc = "running"
    /\ \E cli \in CommandLines, config \in StoredConfigs :
        /\ args = Args_parse(cli)
        /\ app = AppNew(config)
        /\ disk = Some(config)
        /\ hist = [HistInit EXCEPT !.requested = cli]
    /\ event_loop = [state |-> "running", resumed |-> FALSE, exiting |-> FALSE,
                     redraw_requested |-> FALSE]
    /\ trace = <<>>
    /\ last_event = [kind |-> "none", phase |-> "Uninitialized"]
    /\ shader_calls = <<>>
    /\ bridge_call = None

NextStart == Resumed

SpecStart == InitStart /\ [][NextStart]_vars


(***************************************************************************)
(* The animation controls on their own: an initialized application that    *)
(* receives key events and redraws.  `last_event` also keeps the input of  *)
(* the event: the key and its state, or what the frame met.                *)
(***************************************************************************)
InitAnim ==
    /\ gl = BridgeRenderer.g
    /\ proc = "running"
    /\ args = DefaultArgs
    /\ app = store(AppNew(ConfigDefault), <<DEFAULT_WIDTH, DEFAULT_HEIGHT>>,
                   BridgeRenderer.value)
    /\ event_loop = [state |-> "running", resumed |-> TRUE, exiting |-> FALSE,
                     redraw_requested |-> FALSE]
    /\ disk = Some(ConfigDefault)
    /\ trace = <<>>
    /\ last_event = [kind |-> "none", phase |-> "Ready", input |-> None]
    /\ hist = HistInit
    /\ shader_calls = <<>>
    /\ bridge_call = None

ApplyInput(kind, input, r) ==
    /\ FrameBound(r)
    /\ app' = r.app
    /\ gl' = r.g
    /\ event_loop' = r.ev
    /\ disk' = r.disk
    /\ trace' = r.trace
    /\ proc' = r.proc
    /\ last_event' = [kind |-> kind, phase |-> Lifecycle, input |-> Some(input)]
    /\ UNCHANGED <<args, hist, shader_calls, bridge_call>>

KeyEvent ==
    /\ Running
    /\ \E state \in ElementStates, key \in Keys :
        \E r \in {keyboard_input(app, gl, event_loop, disk, state, key)} :
            ApplyInput("KeyboardInput", <<state, key>>, r)

Frame ==
    /\ Running
    /\ unwrap(app.gl_surface).swaps < MaxSwaps
    /\ \E input \in FrameInputs :
        \E r \in {redraw_requested(app, gl,
                                   [event_loop EXCEPT !.redraw_requested = FALSE],
                                   disk, input)} :
            ApplyInput("RedrawRequested", input, r)

NextAnim == KeyEvent \/ Frame

SpecAnim == InitAnim /\ [][NextAnim]_vars


(***************************************************************************)
(* Claims about the viewport bridge, checked under SpecBridge.             *)
(***************************************************************************)
BridgeCalled == IsSome(bridge_call)
bc == unwrap(bridge_call)
ValidRect(rect) == rect_width(rect) > 0 /\ rect_height(rect) > 0
SubRectangle(rect) ==
    <<as_i32(rect.min_x), as_i32(rect.min_y), as_i32(rect_width(rect)),
      as_i32(rect_height(rect))>>
Ops(calls) == {calls[i].op : i \in 1..Len(calls)}

\* C1: for every rectangle of positive width and height and every rotation,
\* render_viewport returns, and the GPU viewport read after the call equals the
\* viewport read before it, whatever that was.
C1_ViewportUnchangedByBridge ==
    (BridgeCalled /\ ValidRect(bc.rect)) =>
        /\ bc.outcome = "returned"
        /\ bc.exit.viewport = bc.entry.viewport
        /\ gl.viewport = bc.entry.viewport

\* A call with a valid rectangle that set the viewport to a sub-rectangle
\* different from the viewport at entry, and came back.
C1_Witness ==
    /\ BridgeCalled /\ ValidRect(bc.rect) /\ bc.outcome = "returned"
    /\ SubRectangle(bc.rect) # bc.entry.viewport
    /\ Call("gl.viewport", SubRectangle(bc.rect)) \in {bc.calls[i] : i \in 1..Len(bc.calls)}
    /\ bc.entry.viewport # <<0, 0, 0, 0>>

\* C2: on every path out of render_viewport, normal or abnormal, the viewport
\* saved at entry is in effect again: the GPU viewport is never left set to the
\* sub-rectangle.
C2_ViewportRestoredOnEveryExit ==
    BridgeCalled => gl.viewport = bc.entry.viewport

\* C3: a rectangle of height 0 is skipped: no aspect ratio is computed from it,
\* no projection matrix is built, no mesh draw is issued, and nothing panics.
C3_HeightZeroSkipped ==
    (BridgeCalled /\ rect_height(bc.rect) = 0) =>
        /\ bc.outcome # "panicked"
        /\ Ops(bc.calls) \cap {"f32.div", "glm.perspective", "gl.draw_elements"} = {}

(***************************************************************************)
(* Claims about the shader compiler, checked under SpecShader.             *)
(***************************************************************************)
ShaderCalls == {shader_calls[i] : i \in 1..Len(shader_calls)}
StageFailure(c) == c.kind = "Err" /\ c.at \in {VERTEX_SHADER, FRAGMENT_SHADER}
LinkFailure(c) == c.kind = "Err" /\ c.at = "link"
\* The program object a call created: the first name it allocated.
CreatedProgram(c) == c.before.next_name
InDiag(text, diag) == \E i \in 1..Len(diag) : diag[i] = text

\* C4: when create_program returns an error because a stage failed to compile,
\* the allocated shader and program objects after the call are those before it.
C4_NothingAllocatedAfterStageFailure ==
    \A c \in ShaderCalls : StageFailure(c) => Allocated(c.after) = Allocated(c.before)

\* C5: a stage failure's diagnostic tells which stage failed: diagnostics of
\* failures at different places (vertex stage, fragment stage, link) differ,
\* also when the log text is the same.
C5_DiagnosticTellsTheStage ==
    \A c, d \in ShaderCalls :
        (c.kind = "Err" /\ d.kind = "Err" /\ c.at # d.at) => c.diag # d.diag

\* C6: when both stages compile and linking fails, the program object the call
\* created is released and the error carries the linker's log; a program handle
\* is returned only for a program that linked.
C6_LinkFailureReleasesProgram ==
    \A c \in ShaderCalls :
        /\ (IsSome(c.link) /\ ~unwrap(c.link).status) =>
                /\ c.kind = "Err"
                /\ CreatedProgram(c) \notin Allocated(c.after).programs
                /\ InDiag(unwrap(c.link).log, c.diag)
        /\ c.kind = "Ok" =>
                /\ IsSome(c.link) /\ unwrap(c.link).status
                /\ c.value = CreatedProgram(c)
                /\ c.value \in Allocated(c.after).programs

\* A call whose stages compiled and whose link failed, on a context that
\* already holds a linked program of an earlier call.
C6_Witness ==
    \E c, d \in ShaderCalls :
        /\ LinkFailure(c) /\ IsSome(c.link) /\ ~unwrap(c.link).status
        /\ d.kind = "Ok" /\ d.value \in Allocated(c.before).programs

\* C7: create_program never aborts the process: whatever the GPU answers, the
\* caller gets Ok(program) or Err(diagnostic).
C7_CompilerNeverAborts ==
    /\ \A c \in ShaderCalls : c.kind \in {"Ok", "Err"}
    /\ proc = "running"

(***************************************************************************)
(* Claims about the frame loop, checked under Spec.  `trace` holds the     *)
(* calls of the handler that ran last, `last_event` its event and the      *)
(* lifecycle state it was delivered in.                                    *)
(***************************************************************************)
\* The step of the redraw iteration a call belongs to (0: none of them).
StepOf(c) ==
    CASE c.op = "egui_winit.take_egui_input" -> 1
      [] c.op = "egui_ctx.run" -> 2
      [] c.op = "egui_ctx.tessellate" -> 3
      [] c = Call("gl.clear", <<"COLOR_BUFFER_BIT", "DEPTH_BUFFER_BIT">>) -> 4
      [] c.op = "painter.paint_primitives" -> 5
      [] c.op = "painter.set_texture" -> 6
      [] c.op = "painter.free_texture" -> 7
      [] c.op = "gl_surface.swap_buffers" -> 8
      [] OTHER -> 0
Steps(tr) == SelectSeq([i \in 1..Len(tr) |-> StepOf(tr[i])], LAMBDA s : s # 0)
Times(s, k) == Cardinality({i \in 1..Len(s) : s[i] = k})
RedrawRan == last_event.kind = "RedrawRequested" /\ last_event.phase # "Uninitialized"

\* C8: every redraw iteration performs, in this order and each once: capture
\* input, UI layout, tessellation, clear of colour and depth, paint, texture
\* uploads then texture frees, swap; no step is skipped or reordered.
C8_RedrawStepsInStrictOrder ==
    RedrawRan =>
        LET s == Steps(trace) IN
        /\ \A i, j \in 1..Len(s) : i < j => s[i] <= s[j]
        /\ \A k \in {1, 2, 3, 4, 5, 8} : Times(s, k) = 1

\* C9: after initialization, a redraw that completes without a fatal error
\* has swapped buffers exactly once, and the surface then has the size of the
\* most recent resize, or the initial size when there was none.
C9_OnePresentAtLatestSize ==
    (RedrawRan /\ proc = "running") =>
        LET surface == unwrap(app.gl_surface) IN
        /\ surface.swaps = hist.swaps_before + 1
        /\ Times(Steps(trace), 8) = 1
        /\ surface.size = IF IsSome(hist.last_resize) THEN unwrap(hist.last_resize)
                          ELSE unwrap(hist.init_size)

\* Initialized at 1280x720, resized to 640x480, then a redraw that completed.
C9_Witness ==
    /\ RedrawRan /\ proc = "running"
    /\ hist.init_size = Some(<<DEFAULT_WIDTH, DEFAULT_HEIGHT>>)
    /\ hist.last_resize = Some(<<640, 480>>)
    /\ unwrap(app.gl_surface).size = <<640, 480>>
    /\ unwrap(app.gl_surface).swaps = hist.swaps_before + 1

\* The calls that resize the surface, reach the GPU or swap the buffers.
GpuOps ==
    {"gl_surface.resize", "gl_surface.swap_buffers", "gl.viewport", "gl.clear_color",
     "gl.clear", "gl.enable", "gl.depth_func", "gl.cull_face", "gl.get_parameter_i32_slice",
     "gl.use_program", "gl.uniform_matrix_4_f32_slice", "gl.bind_vertex_array",
     "gl.draw_elements", "painter.paint_primitives", "painter.set_texture",
     "painter.free_texture"}
WindowEvents ==
    {"CloseRequested", "KeyboardInput", "Resized", "Moved", "RedrawRequested", "Other"}

\* C10: a window event delivered in a state other than Ready (a resource is
\* absent, or exit was requested by close or Escape) resizes no surface, makes
\* no GPU call and swaps no buffer.
C10_ResizeAndRedrawOnlyInReady ==
    (last_event.kind \in WindowEvents /\ last_event.phase # "Ready") =>
        Ops(trace) \cap GpuOps = {}

(***************************************************************************)
(* Claims about initialization and the lifecycle, checked under Spec.      *)
(***************************************************************************)
\* C11: every failure of a step of initialization terminates the process:
\* once a step has failed no handler runs again, the application is not back
\* in Uninitialized waiting for events and it never is Ready.
C11_InitFailureIsFatal ==
    hist.init_failure # "none" =>
        /\ proc = "panicked"
        /\ ~Running
        /\ last_event.kind = "Resumed"

\* The first initialization failed in the cube's shader program.
C11_Witness ==
    /\ hist.init_failure \in {VERTEX_SHADER, FRAGMENT_SHADER, "gl.link_program"}
    /\ hist.resumes = 1
    /\ proc = "panicked"
    /\ ~AllPresent(app)

\* C12: the window, the device context, the surface, the GPU function table,
\* the painter and the Renderer are created once in a run and never again,
\* whatever callbacks are delivered, a second resumed included.
C12_ResourcesCreatedOnce ==
    \A x \in Resources : hist.created[x] <= 1

\* The Renderer values alive while the last handler ran: the one the App
\* holds and one for every clone the handler made.
RenderersAlive ==
    (IF IsSome(app.renderer) THEN 1 ELSE 0)
    + Cardinality({i \in 1..Len(trace) : trace[i].op = "renderer.clone"})

\* C13: at every moment one mesh exists per Renderer and one Renderer per GPU
\* context, also in the frames whose paint callback is built from the
\* Renderer, and a callback runs only while the Renderer it uses exists.
C13_OneRendererOneMesh ==
    (proc = "running" /\ IsSome(app.renderer)) =>
        /\ gl.vertex_arrays = {unwrap(app.renderer).cube.vao}
        /\ RenderersAlive = 1
        /\ \A i \in 1..Len(trace) :
                trace[i].op = "Renderer::render_viewport" => RenderersAlive >= 1

\* The Option fields of App.
BundleFields ==
    {"window", "gl_surface", "gl_context", "gl_display", "egui_winit", "painter",
     "app_state", "renderer", "gl"}

\* C14: whenever a handler can run, the resources are all absent or all
\* present, never some of them.
C14_BundlePopulatedAtomically ==
    proc = "running" =>
        \/ \A f \in BundleFields : IsSome(app[f])
        \/ \A f \in BundleFields : ~IsSome(app[f])

\* resumed has run to its end and stored the resources.
C14_Witness ==
    /\ proc = "running" /\ last_event.kind = "Resumed"
    /\ \A f \in BundleFields : IsSome(app[f])

Stopped == proc # "running" \/ event_loop.exiting \/ event_loop.state = "ended"

Presented(n) == AllPresent(app) /\ unwrap(app.gl_surface).swaps = n

\* C16: in Ready every processed redraw iteration leaves a redraw requested,
\* and a requested redraw eventually runs (another frame is presented) unless
\* the run stops, whether the animation plays or is paused.
C16_ContinuousRedraw ==
    /\ []((RedrawRan /\ proc = "running") => event_loop.redraw_requested)
    /\ \A n \in 0..(MaxSwaps - 1) :
            (Presented(n) /\ event_loop.redraw_requested) ~> (Presented(n + 1) \/ Stopped)

\* A paused application has presented a frame and has the next one requested.
C16_Witness ==
    /\ RedrawRan /\ proc = "running" /\ ~Stopped
    /\ ~unwrap(app.app_state).playing
    /\ Presented(1) /\ event_loop.redraw_requested

\* C17: File > Exit clicked during UI layout does not end the process from
\* inside the layout: no redraw iteration calls std::process::exit, and the
\* iteration in which Exit was clicked still reaches its buffer swap.
C17_ExitPropagatedToFrameLoop ==
    RedrawRan =>
        /\ \A i \in 1..Len(trace) : trace[i].op # "std::process::exit"
        /\ proc = "exited" => Times(Steps(trace), 8) = 1

\* C18: a resize event that is handled leaves the surface at the event's
\* (w, h) and the GPU viewport at (0, 0, w, h), whatever came before it; a
\* second resize with the same size changes neither the surface nor the GPU
\* state; and every redraw starts with the surface at the size of the most
\* recent handled resize.
C18_ResizeLatestWinsIdempotent ==
    /\ []((last_event.kind = "Resized" /\ AllPresent(app) /\ proc = "running") =>
            /\ gl.viewport = <<0, 0>> \o unwrap(hist.last_resize)
            /\ unwrap(app.gl_surface).size = unwrap(hist.last_resize))
    /\ []((proc = "running" /\ AllPresent(app) /\ IsSome(hist.last_resize)) =>
            unwrap(app.gl_surface).size = unwrap(hist.last_resize))
    /\ [][(last_event'.kind = "Resized" /\ hist'.repeated /\ proc' = "running") =>
            /\ gl' = gl
            /\ app'.gl_surface = app.gl_surface]_vars

\* Two resize events in a row with the same size, after a different size.
C18_Witness ==
    /\ last_event.kind = "Resized" /\ AllPresent(app) /\ proc = "running"
    /\ hist.repeated
    /\ hist.last_resize = Some(<<800, 600>>)
    /\ hist.init_size # hist.last_resize
    /\ gl.viewport = <<0, 0, 800, 600>>

\* C19: after any sequence of update calls the Renderer's rotation is the
\* argument of the last call, 0 before the first; the mesh the Renderer holds
\* is the one it was built with, and a call of update leaves the GPU state
\* as it was.
C19_UpdateStoresAbsolute ==
    /\ [](LET self == unwrap(app.renderer) IN
          /\ self.rotation = IF trace = <<>> THEN 0 ELSE trace[Len(trace)].arg[1]
          /\ self.cube = BridgeRenderer.value.cube)
    /\ [][trace' # trace => gl' = gl]_vars

\* Three calls, the last with a smaller argument than the one before it.
C19_Witness ==
    /\ Len(trace) = MaxCalls
    /\ trace[MaxCalls - 1].arg = <<MaxFrame>>
    /\ trace[MaxCalls].arg = <<1>>
    /\ unwrap(app.renderer).rotation = 1
    /\ gl.viewport # BridgeRenderer.g.viewport

\* The rotations passed to Renderer::render_viewport by the handler that ran
\* last, and the number of Renderer::update calls it made.
DrawnRotations ==
    {trace[i].arg[2] : i \in {j \in 1..Len(trace) : trace[j].op = "Renderer::render_viewport"}}

UpdateCalls == Cardinality({i \in 1..Len(trace) : trace[i].op = "renderer.update"})

\* C20: in a redraw iteration that completes, the rotation the viewport
\* render draws with is the rotation the App's Renderer stores at that time,
\* and the iteration has overwritten the stored rotation exactly once.
C20_DrawUsesStoredRotation ==
    (RedrawRan /\ proc = "running") =>
        /\ \A rotation \in DrawnRotations : rotation = unwrap(app.renderer).rotation
        /\ UpdateCalls = 1

\* C21: once the application is initialized, handling a resize, move, redraw
\* or keyboard event leaves the in-memory Config and the persisted
\* configuration file as they were.
C21_ConfigUntouchedAfterInit ==
    [][(AllPresent(app)
        /\ last_event'.kind \in {"Resized", "Moved", "RedrawRequested", "KeyboardInput"})
       => (app'.config = app.config /\ disk' = disk)]_vars

\* C22: when render_viewport returns, the depth-test flag, the face-culling
\* flag, the cull-face mode and the depth comparison function are the ones
\* that were in effect when it was entered.
C22_GpuStateRestored ==
    (BridgeCalled /\ unwrap(bridge_call).outcome = "returned") =>
        LET met == unwrap(bridge_call).entry
            left == unwrap(bridge_call).exit
        IN  /\ left.depth_test = met.depth_test
            /\ left.cull_face = met.cull_face
            /\ left.cull_mode = met.cull_mode
            /\ left.depth_func = met.depth_func

\* The size initialization has to give the window: each requested dimension,
\* and the configured one where the command line requests none.
RequestedSize ==
    << IF IsSome(hist.requested.width) THEN unwrap(hist.requested.width)
       ELSE app.config.window.width,
       IF IsSome(hist.requested.height) THEN unwrap(hist.requested.height)
       ELSE app.config.window.height >>

\* C23: after a successful initialization the window and the surface have
\* exactly the requested width and height, whatever the configuration holds,
\* also when the request is 1280 or 720; the configured values are used only
\* for a dimension that was not requested.
C23_RequestedSizeWins ==
    (last_event.kind = "Resumed" /\ proc = "running" /\ AllPresent(app)) =>
        /\ unwrap(app.gl_surface).size = RequestedSize
        /\ unwrap(app.window).inner_size = RequestedSize

\* The calls that need the context to be current: those of the window
\* events and those of initialization.
NeedsCurrent ==
    GpuOps \cup {"gl.buffer_data", "gl.create_buffer", "gl.create_vertex_array",
                 "gl.front_face", "gl_surface.set_swap_interval", "egui_glow::Painter::new",
                 "shader::create_program", "Renderer::render_viewport"}

\* window, context, surface, activation, function table
InitOrder ==
    << "DisplayBuilder.build", "gl_display.create_context",
       "gl_display.create_window_surface", "not_current_context.make_current",
       "glow::Context::from_loader_function_cstr" >>

Positions_of(tr, op) == {i \in 1..Len(tr) : tr[i].op = op}

\* C24: initialization creates window, context, surface, activates the
\* context and loads the function table in this order, each at most once per
\* run of resumed; every GPU-issuing call of resumed comes after an activation
\* that succeeded, and a handler other than resumed issues GPU calls only in
\* an initialized application, whose context is current.
C24_GpuCallsOnlyWhileCurrent ==
    /\ last_event.kind = "Resumed" =>
        /\ \A k \in 1..Len(InitOrder) : Cardinality(Positions_of(trace, InitOrder[k])) <= 1
        /\ \A k \in 2..Len(InitOrder) :
            \A j \in Positions_of(trace, InitOrder[k]) :
                \E i \in Positions_of(trace, InitOrder[k - 1]) : i < j
        /\ \A j \in 1..Len(trace) :
            trace[j].op \in NeedsCurrent =>
                \E i \in Positions_of(trace, "not_current_context.make_current") : i < j
    /\ (last_event.kind # "Resumed" /\ \E j \in 1..Len(trace) : trace[j].op \in NeedsCurrent) =>
        /\ last_event.phase # "Uninitialized"
        /\ app.gl_context = Some("current")

\* A completed initialization: the mesh was built and face winding set
\* after the activation.
C24_Witness ==
    /\ last_event.kind = "Resumed" /\ proc = "running"
    /\ Positions_of(trace, "not_current_context.make_current") # {}
    /\ Positions_of(trace, "gl.front_face") # {}
    /\ Positions_of(trace, "egui_glow::Painter::new") # {}

\* The shader stage objects the application still has to release: those that
\* exist and are not flagged for deletion.
LiveStages(g) == {s.name : s \in {t \in g.shaders : ~t.flagged}}

\* C25: when create_program returns, with a program or with an error, as
\* many shader stage objects are live as before the call.
C25_NoStageObjectLeft ==
    \A c \in ShaderCalls :
        c.kind \in {"Ok", "Err"} =>
            Cardinality(LiveStages(c.after)) = Cardinality(LiveStages(c.before))

\* The runs of the 3D pass in the handler that ran last, and the mesh draws
\* and depth-only clears it issued.
ViewportPasses == Positions_of(trace, "Renderer::render_viewport")
MeshDraws == Positions_of(trace, "gl.draw_elements")
DepthClears == {i \in 1..Len(trace) : trace[i] = Call("gl.clear", <<"DEPTH_BUFFER_BIT">>)}
FrameClears ==
    {i \in 1..Len(trace) : trace[i] = Call("gl.clear", <<"COLOR_BUFFER_BIT", "DEPTH_BUFFER_BIT">>)}
Registrations == Positions_of(trace, "ui.painter.add")

\* The calls made during UI layout: from egui_ctx.run up to tessellation, or
\* up to the end when the iteration did not get that far.
LayoutCalls ==
    {k \in 1..Len(trace) :
        /\ \E i \in Positions_of(trace, "egui_ctx.run") : i < k
        /\ \A j \in Positions_of(trace, "egui_winit.handle_platform_output") : k < j}

VertexCount == Len(vertices) \div 9

\* The six indices of face `f` (from 0) and the four vertices of its rows.
FaceIndices(f) == {indices[6 * f + k] : k \in 1..6}
FaceVertices(f) == {4 * f + k : k \in 0..3}

\* The draws of the bridge call made last.
DrawCalls == {bc.calls[i] : i \in {j \in 1..Len(bc.calls) : bc.calls[j].op = "gl.draw_elements"}}

\* C27: the index list has 36 entries, each a vertex index in 0..23 of the 24
\* vertices of 9 floats; the six indices of a face refer only to that face's
\* four vertices; and render draws 36 indices as triangles.
C27_IndexListWellFormed ==
    /\ Len(indices) = 36
    /\ Len(vertices) = 24 * 9
    /\ \A k \in 1..Len(indices) : indices[k] \in 0..(VertexCount - 1)
    /\ \A f \in 0..5 : FaceIndices(f) \subseteq FaceVertices(f)
    /\ BridgeCalled => \A d \in DrawCalls : d.arg = <<"TRIANGLES", 36>>
    /\ (BridgeCalled /\ bc.outcome = "returned") => Cardinality(DrawCalls) = 1

\* A bridge call that returned and drew the mesh.
C27_Witness ==
    /\ BridgeCalled /\ bc.outcome = "returned"
    /\ Call("gl.draw_elements", <<"TRIANGLES", INDEX_COUNT>>) \in DrawCalls
    /\ rect_height(bc.rect) > 0

minus(a, b) == <<a[1] - b[1], a[2] - b[2], a[3] - b[3]>>
dot(a, b) == a[1] * b[1] + a[2] * b[2] + a[3] * b[3]
cross(a, b) ==
    << a[2] * b[3] - a[3] * b[2], a[3] * b[1] - a[1] * b[3], a[1] * b[2] - a[2] * b[1] >>

\* The triangles gl.draw_elements(TRIANGLES, ..) assembles: three consecutive
\* indices each.
Triangles == {<<indices[3 * t + 1], indices[3 * t + 2], indices[3 * t + 3]>> :
                t \in 0..((Len(indices) \div 3) - 1)}

\* (v1 - v0) x (v2 - v0)
FaceNormal(tri) ==
    cross(minus(vertex_position(tri[2]), vertex_position(tri[1])),
          minus(vertex_position(tri[3]), vertex_position(tri[1])))

\* What the rasterizer does with a triangle seen from `eye` (a point in the
\* cube's own space, in halves) under the GPU state `g`: the triangle is
\* front-facing when its winding, as seen from there, is the one g.front_face
\* names, and it is culled when culling is enabled for the side it shows.
SeenCcw(tri, eye) == dot(FaceNormal(tri), minus(eye, vertex_position(tri[1]))) > 0
FrontFacing(g, tri, eye) == IF g.front_face = "CCW" THEN SeenCcw(tri, eye) ELSE ~SeenCcw(tri, eye)
Culled(g, tri, eye) ==
    g.cull_face /\ (IF g.cull_mode = "BACK" THEN ~FrontFacing(g, tri, eye)
                    ELSE FrontFacing(g, tri, eye))

\* Points around the cube, none inside it.
Eyes == {e \in {-4, 0, 4} \X {-4, 0, 4} \X {-4, 0, 4} : e # <<0, 0, 0>>}

\* A viewer at `eye` is on the outer side of the triangle's face.
Outside(tri, eye) == dot(vertex_normal(tri[1]), minus(eye, vertex_position(tri[1]))) > 0

\* C28: the mesh has 12 triangles; the three vertices of each carry the same
\* normal and (v1 - v0) x (v2 - v0) points the way of that normal, i.e. the
\* triangle is counter-clockwise seen from outside; so in the GPU state a
\* bridge call draws with (CCW front, back faces culled) no triangle is culled
\* for a viewer on its outer side, and every triangle is for one behind it.
C28_OutwardFacesWoundCcw ==
    /\ Cardinality(Triangles) = 12
    /\ \A tri \in Triangles :
        /\ vertex_normal(tri[1]) = vertex_normal(tri[2])
        /\ vertex_normal(tri[2]) = vertex_normal(tri[3])
        /\ dot(FaceNormal(tri), vertex_normal(tri[1])) > 0
        /\ cross(FaceNormal(tri), vertex_normal(tri[1])) = <<0, 0, 0>>
    /\ (BridgeCalled /\ DrawCalls # {}) =>
        /\ bc.exit.front_face = "CCW" /\ bc.exit.cull_face /\ bc.exit.cull_mode = "BACK"
        /\ \A tri \in Triangles, eye \in Eyes :
            Culled(bc.exit, tri, eye) <=> ~Outside(tri, eye)

\* A bridge call that was entered with front faces culled drew the mesh, and
\* the viewer of the application (eye at (2, 2, 2)) sees the top face.
C28_Witness ==
    /\ BridgeCalled /\ DrawCalls # {}
    /\ bc.entry.cull_mode = "FRONT"
    /\ \E tri \in Triangles :
        /\ vertex_normal(tri[1]) = <<0, 1, 0>>
        /\ Outside(tri, <<4, 4, 4>>) /\ ~Culled(bc.exit, tri, <<4, 4, 4>>)

\* C29: a resize event never ends the process, whatever size it reports, a
\* width or height of 0 included: the handler returns and the application is
\* still in Ready.
C29_ResizeNeverFatal ==
    (last_event.kind = "Resized" /\ last_event.phase = "Ready") =>
        /\ proc = "running"
        /\ AllPresent(app)

(***************************************************************************)
(* Claims about the animation controls, checked under SpecAnim.            *)
(***************************************************************************)
\* What a control does to <<playing, frame_count>>, as the claim states it.
Flipped(st) == [playing |-> ~st.playing, frame_count |-> st.frame_count]
Stepped(st) == [playing |-> st.playing, frame_count |-> st.frame_count + 1]
Rewound(st) == [playing |-> FALSE, frame_count |-> 0]

AfterKey(st, state, key) ==
    IF state # "Pressed" THEN st
    ELSE CASE key \in {"Space", "ArrowUp"} -> Flipped(st)
           [] key \in {"ArrowLeft", "KeyR"} -> Rewound(st)
           [] key = "ArrowRight" -> Stepped(st)
           [] OTHER -> st

AfterClick(st, click) ==
    CASE click = "play" -> Flipped(st)
      [] click = "reset" -> Rewound(st)
      [] click = "step" -> Stepped(st)
      [] OTHER -> st

\* C30: a key event changes the animation state as its key says (toggle,
\* reset, step; nothing for a release or another key); a redraw applies the
\* clicked button, hands the viewport the frame_count read then, and after
\* that advances frame_count by 1 when the animation plays and by 0 when it
\* is paused.
C30_FrameCounterDiscipline ==
    [][LET st == unwrap(app.app_state)
           new == unwrap(app'.app_state)
           input == unwrap(last_event'.input)
       IN  /\ last_event'.kind = "KeyboardInput" => new = AfterKey(st, input[1], input[2])
           /\ (last_event'.kind = "RedrawRequested" /\ proc' # "exited") =>
                LET read == AfterClick(st, input.click) IN
                /\ new.playing = read.playing
                /\ new.frame_count = read.frame_count + (IF read.playing THEN 1 ELSE 0)
                /\ \A i \in 1..Len(trace') :
                    trace'[i].op \in {"ui.painter.add", "Renderer::render_viewport"}
                        => trace'[i].arg[2] = read.frame_count]_vars

\* A frame in which Step was clicked while the animation played: the viewport
\* got frame 1, the counter is at 2.
C30_Witness ==
    /\ last_event.kind = "RedrawRequested" /\ proc = "running"
    /\ unwrap(last_event.input).click = "step"
    /\ unwrap(app.app_state) = [playing |-> TRUE, frame_count |-> 2]
    /\ \E i \in 1..Len(trace) :
        trace[i].op = "Renderer::render_viewport" /\ trace[i].arg[2] = 1

=========================================================================
